---- MODULE Spec2Model ----
(***************************************************************************)
(* Model of core/src/impl/Kokkos_TaskNode.hpp: the task node of the Kokkos *)
(* task-DAG scheduler (reference count, wait queue, predecessor link,      *)
(* respawn flag and the team-executed apply of a runnable task).           *)
(*                                                                         *)
(* Threads run the member functions one shared-memory access at a time.    *)
(* KOKKOS_EXPECTS / KOKKOS_ASSERT are modelled as enabled: a failed check  *)
(* moves the caller to "asserted" and the process stops (abort).           *)
(***************************************************************************)
EXTENDS Integers, Sequences, FiniteSets, TLC

\* ------------------------------------------------------------------ bounds
NumThreads == 3        \* threads (callers, team members)
MaxInitCount == 2      \* largest initial_reference_count tried
NumCallers == 2        \* threads that call the reference-counting operations
MaxCalls == 2          \* calls each of them makes in a row
MaxPredCalls == 3      \* calls made on one node's predecessor link
MaxNodeCalls == 3      \* calls one caller makes in a row on a node, of any operation
MaxPasses == 3         \* execution passes of one runnable node

Thread == 1..NumThreads
Caller == 1..NumCallers
\* Node 0 is the node the operations act on; node t is the task that thread t
\* hands in as waiter (try_add_waiting) or as predecessor (set_predecessor).
Root == 0
Node == 0..NumThreads

\* Pointer values that are not nodes: nullptr, and the tags of the wait queue
\* (end of the chain, queue consumed, node in no queue).
NullPtr == -1
EndTag == -2
ConsumedTag == -3
NotEnqueued == -4

\* enum TaskType : int16_t { TaskTeam = 0 , TaskSingle = 1 , Aggregate = 2 };
TaskTeam == 0
TaskSingle == 1
Aggregate == 2
TaskType == {TaskTeam, TaskSingle, Aggregate}

\* enum class TaskPriority of the scheduler: High, Regular, Low.
High == 0
Regular == 1
Low == 2
TaskPriority == {High, Regular, Low}

\* The scheduling queue that owns the nodes (TaskQueueBase*).
QueueBase == 1

\* A call's boolean result, "none" while it has not returned.
Result(b) == IF b THEN "true" ELSE "false"

VARIABLES
  \* ---- fields of the nodes
  m_ref_count,       \* ReferenceCountedBase::m_ref_count, per node
  m_head,            \* head of TaskNode::m_wait_queue, per node
  m_next,            \* intrusive link of a node inside a wait queue
  m_predecessor,     \* RunnableTaskBase::m_predecessor, per node
  m_is_respawning,   \* RunnableTaskBase::m_is_respawning, per node
  functor_alive,     \* the FunctorType sub-object of the RunnableTask is constructed
  m_task_type,       \* TaskNode::m_task_type, per node
  m_priority,        \* TaskNode::m_priority, per node
  m_ready_queue_base,\* TaskNode::m_ready_queue_base, per node
  n_vla_entries,     \* AggregateTask: number of predecessor slots of Root
  vla,               \* AggregateTask: the predecessor slots of Root
  remaining,         \* the queue's count of Root's slots still set
  \* ---- the callers
  pc,                \* where each thread is
  old_head,          \* local of try_push / consume
  res,               \* what the wait queue's try_push returned to try_add_waiting
  old_count,         \* local of decrement_and_check_reference_count
  ret,               \* boolean the thread's last call returned
  ptr_ret,           \* node the thread's last call returned
  only_one_thread,   \* local of apply
  arg,               \* node passed to the call in progress
  calls,             \* calls the thread has begun
  \* ---- team execution context
  team_size,         \* members of the team that runs apply
  arrived,           \* members that called team_barrier
  \* ---- observations (history), not program state
  h                  \* record of counters and snapshots, see HInit

nodeVars == <<m_ref_count, m_head, m_next, m_predecessor, m_is_respawning, functor_alive>>
callVars == <<pc, old_head, res, old_count, ret, ptr_ret, only_one_thread, arg, calls>>
teamVars == <<team_size, arrived>>
kindVars == <<m_task_type, m_priority, m_ready_queue_base>>
aggVars == <<n_vla_entries, vla, remaining>>
extVars == <<kindVars, aggVars>>
vars == <<nodeVars, callVars, teamVars, extVars, h>>

\* No assertion has fired: the process is still running.
Running == \A t \in Thread : pc[t] # "asserted"

HInit ==
  [ accepted   |-> [n \in Node |-> 0],    \* try_add_waiting calls on the node that returned true
    visited    |-> [n \in Node |-> 0],    \* times consume's visit function saw the node
    late       |-> {},                    \* threads whose try_push decided on a consumed queue
    captures   |-> {},                    \* threads whose consume took the chain of an open queue
    entered    |-> {},                    \* threads that passed consume_wait_queue's precondition
    on_consumed |-> {},                   \* threads that called consume_wait_queue on a consumed queue
    push_on_consumed |-> {},              \* threads that called try_add_waiting on a consumed queue
    walked     |-> {},                    \* threads whose consume finished its walk
    init_count |-> 0,                     \* initial_reference_count of Root
    incs       |-> 0,                     \* increment_reference_count calls done
    decs       |-> 0,                     \* fetch-adds of -1 done
    to_zero    |-> 0,                     \* times the count went from 1 to 0
    hit_zero   |-> [t \in Thread |-> FALSE], \* the thread's last fetch-add took the count from 1 to 0
    reports    |-> 0,                     \* decrements that returned true
    inc_after_zero |-> FALSE,             \* an increment was applied after the count had gone from 1 to 0
    neg_seen   |-> FALSE,                 \* the count was written below zero
    dec_log    |-> {},                    \* <<order of the fetch-add, value returned>> per returned decrement
    dec_order  |-> [t \in Thread |-> 0],  \* order of the thread's last fetch-add
    set_flag   |-> {},                    \* members whose payload called set_respawn_flag
    in_payload |-> {},                    \* members inside the payload call
    payload_calls |-> [t \in Thread |-> 0],
    destroys   |-> [t \in Thread |-> 0],  \* functor destructor calls per member
    early_read |-> FALSE,                 \* respawn flag read while a payload call was running
    barriers   |-> [t \in Thread |-> 0],  \* team_barrier calls per member
    last_op    |-> "none",                \* the predecessor operation that returned last
    link_sets  |-> 0,                     \* set_predecessor calls returned since the last clear
    clears     |-> 0,                     \* clear_predecessor calls made
    sets_to    |-> [n \in Node |-> 0],    \* set_predecessor calls that stored the node
    snap_pred  |-> NullPtr,               \* m_predecessor[Root] when the call in progress began
    snap_count |-> [n \in Node |-> 0],    \* m_ref_count when the call in progress began
    sets_done  |-> 0,                     \* set_predecessor calls that returned
    rejected   |-> 0,
    init_kind  |-> TaskSingle,            \* task_type the constructor was given
    init_prio  |-> Regular,               \* priority the constructor was given
    cast_ok    |-> {},                    \* downcasts that returned: "runnable", "aggregate"
    cast_failed |-> "none",               \* downcast that asserted
    node_op    |-> "none",                \* the TaskNode operation called last
    sp_arg     |-> Regular,               \* priority passed to the last set_priority
    sp_enqueued |-> FALSE,                \* the node was enqueued when set_priority was called
    sp_calls   |-> 0,                     \* calls of set_priority
    pass       |-> 1,                     \* number of the execution pass
    entered_set |-> FALSE,                \* the respawn flag was set when the pass was entered
    suppressed |-> 0,                     \* passes that asked for no respawn and did not finalize
    init_deps  |-> 0,                     \* aggregate_predecessor_count the constructor was given
    taken      |-> {},                    \* slots whose predecessor has completed
    clear_order |-> << >>,                \* slots in the order they were cleared
    max_active |-> 0,                     \* most workers clearing slots at one time
    ready_reports |-> 0,                  \* times the aggregate was reported ready
    ready_early |-> FALSE,                \* it was reported ready while a slot was still set
    got_priority |-> Regular ]            \* value the last get_priority returned                    \* set_predecessor calls that asserted

NodeInit(c) ==
  /\ m_ref_count = [n \in Node |-> IF n = Root THEN c ELSE 1]
  /\ m_head = [n \in Node |-> EndTag]
  /\ m_next = [n \in Node |-> NotEnqueued]
  /\ m_predecessor = [n \in Node |-> NullPtr]
  /\ m_is_respawning = [n \in Node |-> FALSE]
  /\ functor_alive = TRUE

\* TaskNode(task_type, priority, queue_base, ...): kind and priority of Root;
\* the other nodes are single runnables of regular priority.
KindInit(k, p) ==
  /\ m_task_type = [n \in Node |-> IF n = Root THEN k ELSE TaskSingle]
  /\ m_priority = [n \in Node |-> IF n = Root THEN p ELSE Regular]
  /\ m_ready_queue_base = [n \in Node |-> QueueBase]

\* Root has no predecessor slots.
NoAggregate ==
  /\ n_vla_entries = 0
  /\ vla = << >>
  /\ remaining = 0

CallInit ==
  /\ pc = [t \in Thread |-> "idle"]
  /\ old_head = [t \in Thread |-> NullPtr]
  /\ res = [t \in Thread |-> "none"]
  /\ old_count = [t \in Thread |-> 0]
  /\ ret = [t \in Thread |-> "none"]
  /\ ptr_ret = [t \in Thread |-> NullPtr]
  /\ only_one_thread = [t \in Thread |-> FALSE]
  /\ arg = [t \in Thread |-> NullPtr]
  /\ calls = [t \in Thread |-> 0]

\* ================================================================ wait queue
\* The waiting_queue_type of the queue traits: a lock-free singly linked list
\* whose head holds ConsumedTag once the queue is consumed.

is_consumed(n) == m_head[n] = ConsumedTag

\* try_push: load the head, then compare-and-swap the new node in front of it,
\* retrying with the head the failed swap returned; fail on the poison value.
try_push_load(t, n, w) ==
  /\ old_head' = [old_head EXCEPT ![t] = m_head[n]]
  /\ arg' = [arg EXCEPT ![t] = w]
  /\ UNCHANGED <<m_head, m_next, res>>

try_push_cas(t, n, w) ==
  IF old_head[t] = ConsumedTag
    THEN \* observed the poison value: the node stays outside every queue
         /\ m_next' = [m_next EXCEPT ![w] = NotEnqueued]
         /\ res' = [res EXCEPT ![t] = Result(FALSE)]
         /\ UNCHANGED <<m_head, old_head>>
    ELSE IF m_head[n] = old_head[t]
      THEN /\ m_head' = [m_head EXCEPT ![n] = w]
           /\ m_next' = [m_next EXCEPT ![w] = old_head[t]]
           /\ res' = [res EXCEPT ![t] = Result(TRUE)]
           /\ UNCHANGED old_head
      ELSE /\ old_head' = [old_head EXCEPT ![t] = m_head[n]]
           /\ UNCHANGED <<m_head, m_next, res>>

\* try_push has returned.
try_push_decided(t) == res[t] # "none"

\* consume: one atomic exchange swaps the poison value in, then the captured
\* chain is walked and every node of it handed to the visit function.
consume_exchange(t, n) ==
  /\ old_head' = [old_head EXCEPT ![t] = m_head[n]]
  /\ m_head' = [m_head EXCEPT ![n] = ConsumedTag]
  /\ UNCHANGED <<m_next, res>>

consume_walking(t) == old_head[t] \in Node

consume_visit(t) ==
  /\ consume_walking(t)
  /\ m_next' = [m_next EXCEPT ![old_head[t]] = NotEnqueued]
  /\ old_head' = [old_head EXCEPT ![t] = m_next[old_head[t]]]
  /\ UNCHANGED <<m_head, res>>

\* ---------------------------------------------------------------- TaskNode
\* bool try_add_waiting(task_base_type& depends_on_this): thread t hands in
\* its own node t as the waiter.
try_add_waiting_call(t) ==
  /\ Running /\ pc[t] = "idle"
  /\ try_push_load(t, Root, t)
  /\ pc' = [pc EXCEPT ![t] = "try_push"]
  /\ calls' = [calls EXCEPT ![t] = @ + 1]
  /\ h' = IF is_consumed(Root) THEN [h EXCEPT !.push_on_consumed = @ \cup {t}] ELSE h
  /\ UNCHANGED <<m_ref_count, m_predecessor, m_is_respawning, functor_alive,
                 old_count, ret, ptr_ret, only_one_thread, teamVars, extVars>>

try_add_waiting_push(t) ==
  /\ Running /\ pc[t] = "try_push"
  /\ try_push_cas(t, Root, t)
  /\ pc' = [pc EXCEPT ![t] = IF try_push_decided(t)' THEN "try_push_ret" ELSE "try_push"]
  /\ h' = IF try_push_decided(t)' /\ is_consumed(Root)
            THEN [h EXCEPT !.late = @ \cup {t}] ELSE h
  /\ UNCHANGED <<m_ref_count, m_predecessor, m_is_respawning, functor_alive,
                 old_count, ret, ptr_ret, only_one_thread, arg, calls, teamVars, extVars>>

\* return m_wait_queue.try_push(depends_on_this);
try_add_waiting_forwards_true(t) == Result(TRUE)
try_add_waiting_result(t) == res[t]

try_add_waiting_takes_reference(t) ==
  /\ Running /\ pc[t] = "try_push_ret"
  /\ ret' = [ret EXCEPT ![t] = try_add_waiting_result(t)]
  /\ pc' = [pc EXCEPT ![t] = "done"]
  /\ m_ref_count' = [m_ref_count EXCEPT ![arg[t]] = @ + 1]
  /\ h' = IF ret'[t] = "true" THEN [h EXCEPT !.accepted[arg[t]] = @ + 1] ELSE h
  /\ UNCHANGED <<m_head, m_next, m_predecessor, m_is_respawning, functor_alive,
                 old_head, res, old_count, ptr_ret, only_one_thread, arg, calls, teamVars, extVars>>

try_add_waiting_return(t) ==
  /\ Running /\ pc[t] = "try_push_ret"
  /\ ret' = [ret EXCEPT ![t] = try_add_waiting_result(t)]
  /\ pc' = [pc EXCEPT ![t] = "done"]
  /\ h' = IF ret'[t] = "true" THEN [h EXCEPT !.accepted[arg[t]] = @ + 1] ELSE h
  /\ UNCHANGED <<nodeVars, old_head, res, old_count, ptr_ret, only_one_thread, arg, calls, teamVars, extVars>>

\* KOKKOS_EXPECTS(not m_wait_queue.is_consumed());
consume_wait_queue_unchecked(t) ==
  /\ Running /\ pc[t] = "idle"
  /\ pc' = [pc EXCEPT ![t] = "consume"]
  /\ calls' = [calls EXCEPT ![t] = @ + 1]
  /\ h' = [h EXCEPT !.entered = @ \cup {t},
                   !.on_consumed = IF is_consumed(Root) THEN @ \cup {t} ELSE @]
  /\ UNCHANGED <<nodeVars, old_head, res, old_count, ret, ptr_ret, only_one_thread, arg, teamVars, extVars>>

consume_wait_queue_call(t) ==
  /\ Running /\ pc[t] = "idle"
  /\ pc' = [pc EXCEPT ![t] = IF is_consumed(Root) THEN "asserted" ELSE "consume"]
  /\ calls' = [calls EXCEPT ![t] = @ + 1]
  /\ h' = IF is_consumed(Root) THEN [h EXCEPT !.on_consumed = @ \cup {t}]
                               ELSE [h EXCEPT !.entered = @ \cup {t}]
  /\ UNCHANGED <<nodeVars, old_head, res, old_count, ret, ptr_ret, only_one_thread, arg, teamVars, extVars>>

\* m_wait_queue.consume(std::forward<Function>(f)); the visit function f is
\* the caller's: here it counts its calls per node.
consume_wait_queue_exchange(t) ==
  /\ Running /\ pc[t] = "consume"
  /\ consume_exchange(t, Root)
  /\ pc' = [pc EXCEPT ![t] = "walk"]
  /\ h' = IF is_consumed(Root) THEN h ELSE [h EXCEPT !.captures = @ \cup {t}]
  /\ UNCHANGED <<m_ref_count, m_predecessor, m_is_respawning, functor_alive,
                 old_count, ret, ptr_ret, only_one_thread, arg, calls, teamVars, extVars>>

consume_wait_queue_visit(t) ==
  /\ Running /\ pc[t] = "walk"
  /\ consume_visit(t)
  /\ h' = [h EXCEPT !.visited[old_head[t]] = @ + 1]
  /\ UNCHANGED <<m_ref_count, m_predecessor, m_is_respawning, functor_alive,
                 pc, old_count, ret, ptr_ret, only_one_thread, arg, calls, teamVars, extVars>>

consume_wait_queue_return(t) ==
  /\ Running /\ pc[t] = "walk"
  /\ ~consume_walking(t)
  /\ pc' = [pc EXCEPT ![t] = "done"]
  /\ h' = [h EXCEPT !.walked = @ \cup {t}]
  /\ UNCHANGED <<nodeVars, old_head, res, old_count, ret, ptr_ret, only_one_thread, arg, calls, teamVars, extVars>>

InitWQ ==
  /\ KindInit(TaskSingle, Regular)
  /\ NoAggregate
  /\ \E c \in 1..MaxInitCount : NodeInit(c) /\ h = [HInit EXCEPT !.init_count = c]
  /\ CallInit
  /\ team_size = 1
  /\ arrived = {}

NextWQ ==
  \E t \in Thread :
    \/ try_add_waiting_call(t)
    \/ try_add_waiting_push(t)
    \/ try_add_waiting_return(t)
    \/ consume_wait_queue_call(t)
    \/ consume_wait_queue_exchange(t)
    \/ consume_wait_queue_visit(t)
    \/ consume_wait_queue_return(t)

SpecWQ == InitWQ /\ [][NextWQ]_vars

\* ======================================================= ReferenceCountedBase
\* void increment_reference_count(): Kokkos::atomic_increment(&m_ref_count)
increment_reference_count(n) ==
  m_ref_count' = [m_ref_count EXCEPT ![n] = @ + 1]

\* auto old_count = Kokkos::atomic_fetch_add(&m_ref_count, -1);
decrement_fetch_add(t, n) ==
  /\ old_count' = [old_count EXCEPT ![t] = m_ref_count[n]]
  /\ m_ref_count' = [m_ref_count EXCEPT ![n] = @ - 1]

\* KOKKOS_ASSERT(old_count > 0 && "reference count greater less than zero!");
decrement_assert_missing(old) == TRUE
decrement_assert(old) == old > 0

\* return (old_count == 1);
reached_zero_new_count(old) == old = 0
reached_zero(old) == old = 1

\* One thread's calls on Root, at most MaxCalls of them.
increment_call(t) ==
  /\ Running /\ pc[t] = "idle" /\ calls[t] < MaxCalls
  /\ increment_reference_count(Root)
  /\ calls' = [calls EXCEPT ![t] = @ + 1]
  /\ h' = [h EXCEPT !.incs = @ + 1,
                   !.inc_after_zero = @ \/ h.to_zero > 0]
  /\ UNCHANGED <<m_head, m_next, m_predecessor, m_is_respawning, functor_alive,
                 pc, old_head, res, old_count, ret, ptr_ret, only_one_thread, arg, teamVars, extVars>>

decrement_call(t) ==
  /\ Running /\ pc[t] = "idle" /\ calls[t] < MaxCalls
  /\ decrement_fetch_add(t, Root)
  /\ pc' = [pc EXCEPT ![t] = "decrement"]
  /\ calls' = [calls EXCEPT ![t] = @ + 1]
  /\ ret' = [ret EXCEPT ![t] = "none"]
  /\ h' = [h EXCEPT !.decs = @ + 1,
                   !.dec_order[t] = h.decs + 1,
                   !.hit_zero[t] = (m_ref_count[Root] = 1),
                   !.to_zero = IF m_ref_count[Root] = 1 THEN @ + 1 ELSE @,
                   !.neg_seen = @ \/ m_ref_count[Root] <= 0]
  /\ UNCHANGED <<m_head, m_next, m_predecessor, m_is_respawning, functor_alive,
                 old_head, res, ptr_ret, only_one_thread, arg, teamVars, extVars>>

decrement_return(t) ==
  /\ Running /\ pc[t] = "decrement"
  /\ IF decrement_assert(old_count[t])
       THEN /\ pc' = [pc EXCEPT ![t] = "idle"]
            /\ ret' = [ret EXCEPT ![t] = Result(reached_zero(old_count[t]))]
            /\ h' = [h EXCEPT !.dec_log = @ \cup {<<h.dec_order[t], ret'[t]>>},
                             !.reports = IF ret'[t] = "true" THEN @ + 1 ELSE @]
       ELSE /\ pc' = [pc EXCEPT ![t] = "asserted"]
            /\ UNCHANGED <<ret, h>>
  /\ UNCHANGED <<nodeVars, old_head, res, old_count, ptr_ret, only_one_thread, arg, calls, teamVars, extVars>>

InitRC ==
  /\ KindInit(TaskSingle, Regular)
  /\ NoAggregate
  /\ \E c \in 0..MaxInitCount : NodeInit(c) /\ h = [HInit EXCEPT !.init_count = c]
  /\ CallInit
  /\ team_size = 1
  /\ arrived = {}

NextRC ==
  \E t \in Caller :
    \/ increment_call(t)
    \/ decrement_call(t)
    \/ decrement_return(t)

SpecRC == InitRC /\ [][NextRC]_vars

\* ============================================================ RunnableTaskBase
get_respawn_flag(n) == m_is_respawning[n]

set_respawn_flag(n, value) ==
  m_is_respawning' = [m_is_respawning EXCEPT ![n] = value]

has_predecessor(n) == m_predecessor[n] # NullPtr

\* KOKKOS_EXPECTS(m_predecessor != nullptr);
get_predecessor_expects(n) == m_predecessor[n] # NullPtr

\* KOKKOS_EXPECTS(m_predecessor == nullptr);
set_predecessor_expects_missing(n) == TRUE
set_predecessor_expects(n) == m_predecessor[n] = NullPtr

\* The calls on Root's predecessor link come from one caller at a time (the
\* link is single-writer); p is the node handed in as predecessor.
set_predecessor_call(t, p) ==
  /\ Running /\ pc[t] = "idle" /\ calls[t] < MaxPredCalls
  /\ arg' = [arg EXCEPT ![t] = p]
  /\ calls' = [calls EXCEPT ![t] = @ + 1]
  /\ pc' = [pc EXCEPT ![t] = IF set_predecessor_expects(Root)
                               THEN "set_predecessor" ELSE "asserted"]
  /\ h' = [h EXCEPT !.snap_pred = m_predecessor[Root],
                   !.snap_count = m_ref_count,
                   !.rejected = IF set_predecessor_expects(Root) THEN @ ELSE @ + 1]
  /\ UNCHANGED <<nodeVars, old_head, res, old_count, ret, ptr_ret, only_one_thread, teamVars, extVars>>

\* predecessor.increment_reference_count();
set_predecessor_increment(t) ==
  /\ Running /\ pc[t] = "set_predecessor"
  /\ increment_reference_count(arg[t])
  /\ pc' = [pc EXCEPT ![t] = "store_predecessor"]
  /\ UNCHANGED <<m_head, m_next, m_predecessor, m_is_respawning, functor_alive,
                 old_head, res, old_count, ret, ptr_ret, only_one_thread, arg, calls,
                 teamVars, h, extVars>>

\* m_predecessor = &predecessor;
set_predecessor_store(t) ==
  /\ Running /\ pc[t] = "store_predecessor"
  /\ m_predecessor' = [m_predecessor EXCEPT ![Root] = arg[t]]
  /\ pc' = [pc EXCEPT ![t] = "idle"]
  /\ h' = [h EXCEPT !.sets_done = @ + 1, !.link_sets = @ + 1, !.last_op = "set",
                   !.sets_to[arg[t]] = @ + 1]
  /\ UNCHANGED <<m_ref_count, m_head, m_next, m_is_respawning, functor_alive,
                 old_head, res, old_count, ret, ptr_ret, only_one_thread, arg, calls,
                 teamVars, extVars>>

clear_predecessor_releases(t) ==
  /\ Running /\ pc[t] = "idle" /\ calls[t] < MaxPredCalls
  /\ m_predecessor' = [m_predecessor EXCEPT ![Root] = NullPtr]
  /\ m_ref_count' = IF has_predecessor(Root)
                      THEN [m_ref_count EXCEPT ![m_predecessor[Root]] = @ - 1]
                      ELSE m_ref_count
  /\ calls' = [calls EXCEPT ![t] = @ + 1]
  /\ h' = [h EXCEPT !.snap_pred = m_predecessor[Root],
                   !.snap_count = m_ref_count,
                   !.link_sets = 0, !.last_op = "clear", !.clears = @ + 1]
  /\ UNCHANGED <<m_head, m_next, m_is_respawning, functor_alive,
                 pc, old_head, res, old_count, ret, ptr_ret, only_one_thread, arg,
                 teamVars, extVars>>

\* void clear_predecessor() { m_predecessor = nullptr; }
clear_predecessor_call(t) ==
  /\ Running /\ pc[t] = "idle" /\ calls[t] < MaxPredCalls
  /\ m_predecessor' = [m_predecessor EXCEPT ![Root] = NullPtr]
  /\ calls' = [calls EXCEPT ![t] = @ + 1]
  /\ h' = [h EXCEPT !.snap_pred = m_predecessor[Root],
                   !.snap_count = m_ref_count,
                   !.link_sets = 0, !.last_op = "clear", !.clears = @ + 1]
  /\ UNCHANGED <<m_ref_count, m_head, m_next, m_is_respawning, functor_alive,
                 pc, old_head, res, old_count, ret, ptr_ret, only_one_thread, arg,
                 teamVars, extVars>>

get_predecessor_call(t) ==
  /\ Running /\ pc[t] = "idle" /\ calls[t] < MaxPredCalls
  /\ calls' = [calls EXCEPT ![t] = @ + 1]
  /\ IF get_predecessor_expects(Root)
       THEN /\ ptr_ret' = [ptr_ret EXCEPT ![t] = m_predecessor[Root]]
            /\ h' = [h EXCEPT !.last_op = "get"]
            /\ UNCHANGED pc
       ELSE /\ pc' = [pc EXCEPT ![t] = "asserted"]
            /\ UNCHANGED <<ptr_ret, h>>
  /\ UNCHANGED <<nodeVars, old_head, res, old_count, ret, only_one_thread, arg, teamVars, extVars>>

has_predecessor_call(t) ==
  /\ Running /\ pc[t] = "idle" /\ calls[t] < MaxPredCalls
  /\ calls' = [calls EXCEPT ![t] = @ + 1]
  /\ ret' = [ret EXCEPT ![t] = Result(has_predecessor(Root))]
  /\ h' = [h EXCEPT !.last_op = "has"]
  /\ UNCHANGED <<nodeVars, pc, old_head, res, old_count, ptr_ret, only_one_thread, arg,
                 teamVars, extVars>>

InitPred ==
  /\ KindInit(TaskSingle, Regular)
  /\ NoAggregate
  /\ \E c \in 1..MaxInitCount : NodeInit(c) /\ h = [HInit EXCEPT !.init_count = c]
  /\ CallInit
  /\ team_size = 1
  /\ arrived = {}

NextPred ==
  \/ \E p \in Node \ {Root} : set_predecessor_call(1, p)
  \/ set_predecessor_increment(1)
  \/ set_predecessor_store(1)
  \/ clear_predecessor_call(1)
  \/ get_predecessor_call(1)
  \/ has_predecessor_call(1)

SpecPred == InitPred /\ [][NextPred]_vars

\* ================================================================ RunnableTask
\* The execution context (member_type) of the backend: member t of the team
\* has rank t - 1, and team_barrier returns once every member has called it.
Team == 1..team_size

team_rank(t) == t - 1

team_barrier_arrive(t) ==
  arrived' = arrived \cup {t}

team_barrier_open == arrived = Team

\* const bool only_one_thread = 0 == member->team_rank();
is_any_member(t) == TRUE
is_only_one_thread(t) == team_rank(t) = 0

\* if ( only_one_thread && !(task->get_respawn_flag()) )
destroy_ignoring_respawn(t) == only_one_thread[t]
should_destroy_functor(t) == only_one_thread[t] /\ ~get_respawn_flag(Root)

\* apply(self, member_as_void) as run by member t, up to the payload call.
apply_call(t) ==
  /\ Running /\ pc[t] = "idle" /\ t \in Team
  /\ only_one_thread' = [only_one_thread EXCEPT ![t] = is_only_one_thread(t)]
  /\ pc' = [pc EXCEPT ![t] = "apply_functor"]
  /\ calls' = [calls EXCEPT ![t] = @ + 1]
  /\ UNCHANGED <<nodeVars, old_head, res, old_count, ret, ptr_ret, arg, teamVars, h, extVars>>

\* task->apply_functor(member, result): the user's functor runs; it may ask
\* for a respawn, which calls set_respawn_flag(true) on the task.
apply_functor_rank_zero_only(t) ==
  /\ Running /\ pc[t] = "apply_functor"
  /\ pc' = [pc EXCEPT ![t] = IF team_rank(t) = 0 THEN "payload" ELSE "team_barrier"]
  /\ h' = IF team_rank(t) = 0
            THEN [h EXCEPT !.in_payload = @ \cup {t}, !.payload_calls[t] = @ + 1]
            ELSE h
  /\ UNCHANGED <<nodeVars, old_head, res, old_count, ret, ptr_ret, only_one_thread, arg,
                 calls, teamVars, extVars>>

apply_functor_call(t) ==
  /\ Running /\ pc[t] = "apply_functor"
  /\ pc' = [pc EXCEPT ![t] = "payload"]
  /\ h' = [h EXCEPT !.in_payload = @ \cup {t}, !.payload_calls[t] = @ + 1]
  /\ UNCHANGED <<nodeVars, old_head, res, old_count, ret, ptr_ret, only_one_thread, arg,
                 calls, teamVars, extVars>>

payload_respawn(t) ==
  /\ Running /\ pc[t] = "payload" /\ t \notin h.set_flag
  /\ set_respawn_flag(Root, TRUE)
  /\ h' = [h EXCEPT !.set_flag = @ \cup {t}]
  /\ UNCHANGED <<m_ref_count, m_head, m_next, m_predecessor, functor_alive,
                 callVars, teamVars, extVars>>

apply_functor_return(t) ==
  /\ Running /\ pc[t] = "payload"
  /\ pc' = [pc EXCEPT ![t] = "team_barrier"]
  /\ h' = [h EXCEPT !.in_payload = @ \ {t}]
  /\ UNCHANGED <<nodeVars, old_head, res, old_count, ret, ptr_ret, only_one_thread, arg,
                 calls, teamVars, extVars>>

\* member->team_barrier();
apply_without_barrier(t) ==
  /\ Running /\ pc[t] = "team_barrier"
  /\ team_barrier_arrive(t)
  /\ pc' = [pc EXCEPT ![t] = "check_respawn"]
  /\ h' = [h EXCEPT !.barriers[t] = @ + 1]
  /\ UNCHANGED <<nodeVars, old_head, res, old_count, ret, ptr_ret, only_one_thread, arg,
                 calls, team_size, extVars>>

apply_barrier_rank_zero_only(t) ==
  /\ Running /\ pc[t] = "team_barrier"
  /\ IF team_rank(t) = 0
       THEN /\ team_barrier_arrive(t)
            /\ pc' = [pc EXCEPT ![t] = "in_barrier"]
            /\ h' = [h EXCEPT !.barriers[t] = @ + 1]
       ELSE /\ pc' = [pc EXCEPT ![t] = "check_respawn"]
            /\ UNCHANGED <<arrived, h>>
  /\ UNCHANGED <<nodeVars, old_head, res, old_count, ret, ptr_ret, only_one_thread, arg,
                 calls, team_size, extVars>>

apply_team_barrier(t) ==
  /\ Running /\ pc[t] = "team_barrier"
  /\ team_barrier_arrive(t)
  /\ pc' = [pc EXCEPT ![t] = "in_barrier"]
  /\ h' = [h EXCEPT !.barriers[t] = @ + 1]
  /\ UNCHANGED <<nodeVars, old_head, res, old_count, ret, ptr_ret, only_one_thread, arg,
                 calls, team_size, extVars>>

team_barrier_return(t) ==
  /\ Running /\ pc[t] = "in_barrier"
  /\ team_barrier_open
  /\ pc' = [pc EXCEPT ![t] = "check_respawn"]
  /\ UNCHANGED <<nodeVars, old_head, res, old_count, ret, ptr_ret, only_one_thread, arg,
                 calls, teamVars, h, extVars>>

\* The test of only_one_thread and of the respawn flag (read only when
\* only_one_thread holds), and the return of the members that do not destroy.
apply_check_respawn(t) ==
  /\ Running /\ pc[t] = "check_respawn"
  /\ pc' = [pc EXCEPT ![t] = IF should_destroy_functor(t) THEN "destroy" ELSE "returned"]
  /\ h' = IF only_one_thread[t] /\ h.in_payload # {}
            THEN [h EXCEPT !.early_read = TRUE] ELSE h
  /\ UNCHANGED <<nodeVars, old_head, res, old_count, ret, ptr_ret, only_one_thread, arg,
                 calls, teamVars, extVars>>

\* task->functor_type::~functor_type();
apply_destroy_and_release(t) ==
  /\ Running /\ pc[t] = "destroy"
  /\ functor_alive' = FALSE
  /\ m_ref_count' = [m_ref_count EXCEPT ![Root] = @ - 1]
  /\ pc' = [pc EXCEPT ![t] = "returned"]
  /\ h' = [h EXCEPT !.destroys[t] = @ + 1]
  /\ UNCHANGED <<m_head, m_next, m_predecessor, m_is_respawning,
                 old_head, res, old_count, ret, ptr_ret, only_one_thread, arg, calls,
                 teamVars, extVars>>

apply_destroy_functor(t) ==
  /\ Running /\ pc[t] = "destroy"
  /\ functor_alive' = FALSE
  /\ pc' = [pc EXCEPT ![t] = "returned"]
  /\ h' = [h EXCEPT !.destroys[t] = @ + 1]
  /\ UNCHANGED <<m_ref_count, m_head, m_next, m_predecessor, m_is_respawning,
                 old_head, res, old_count, ret, ptr_ret, only_one_thread, arg, calls,
                 teamVars, extVars>>

InitApply ==
  /\ \E c \in 1..MaxInitCount : NodeInit(c) /\ h = [HInit EXCEPT !.init_count = c]
  /\ CallInit
  /\ team_size \in 1..NumThreads
  /\ arrived = {}
  /\ KindInit(IF team_size = 1 THEN TaskSingle ELSE TaskTeam, Regular)
  /\ NoAggregate

NextApply ==
  \E t \in Thread :
    \/ apply_call(t)
    \/ apply_functor_call(t)
    \/ payload_respawn(t)
    \/ apply_functor_return(t)
    \/ apply_team_barrier(t)
    \/ team_barrier_return(t)
    \/ apply_check_respawn(t)
    \/ apply_destroy_functor(t)

SpecApply == InitApply /\ [][NextApply]_vars

\* The steps of a member that has entered apply: its payload call is made and
\* returns, the barrier lets it go once all members have arrived, and the
\* code after the barrier runs.
MemberStep(t) ==
  \/ apply_functor_call(t)
  \/ apply_functor_return(t)
  \/ apply_team_barrier(t)
  \/ team_barrier_return(t)
  \/ apply_check_respawn(t)
  \/ apply_destroy_functor(t)

SpecApplyFair == SpecApply /\ \A t \in Thread : WF_vars(MemberStep(t))

\* The external scheduler re-submits the node for another pass once every
\* member has returned from a pass that left the respawn flag set; it may
\* first reset the flag with set_respawn_flag(false), or leave it as it is.
resubmit(clear) ==
  /\ Running /\ \A t \in Team : pc[t] = "returned"
  /\ get_respawn_flag(Root)
  /\ h.pass < MaxPasses
  /\ IF clear THEN set_respawn_flag(Root, FALSE) ELSE UNCHANGED m_is_respawning
  /\ pc' = [t \in Thread |-> "idle"]
  /\ arrived' = {}
  /\ h' = [h EXCEPT !.pass = @ + 1,
                   !.entered_set = ~clear,
                   !.suppressed = IF h.set_flag = {} THEN @ + 1 ELSE @,
                   !.in_payload = {},
                   !.payload_calls = [t \in Thread |-> 0],
                   !.barriers = [t \in Thread |-> 0],
                   !.set_flag = {}]
  /\ UNCHANGED <<m_ref_count, m_head, m_next, m_predecessor, functor_alive,
                 old_head, res, old_count, ret, ptr_ret, only_one_thread, arg, calls,
                 team_size, extVars>>

NextRespawn == NextApply \/ \E clear \in BOOLEAN : resubmit(clear)

SpecRespawn == InitApply /\ [][NextRespawn]_vars

\* ==================================================== TaskNode: kind, priority
is_aggregate(n) == m_task_type[n] = Aggregate

is_runnable_single_only(n) == m_task_type[n] = TaskSingle
is_runnable(n) == m_task_type[n] # Aggregate

is_single_runnable(n) == m_task_type[n] = TaskSingle

is_team_runnable(n) == m_task_type[n] = TaskTeam

get_task_type(n) == m_task_type[n]

\* priority_type = int16_t: the value a cast to it keeps.
priority_type(p) == ((p + 32768) % 65536) - 32768

get_priority(n) == m_priority[n]

\* is_enqueued() of the queue traits' intrusive base: the node's link is in use.
is_enqueued(n) == m_next[n] # NotEnqueued

\* KOKKOS_EXPECTS(!this->is_enqueued());
set_priority_expects_missing(n) == TRUE
set_priority_expects(n) == ~is_enqueued(n)

\* Root's fields, as a record.
NodeFields ==
  [ kind |-> m_task_type[Root], priority |-> m_priority[Root],
    count |-> m_ref_count[Root], head |-> m_head[Root], next |-> m_next[Root],
    queue |-> m_ready_queue_base[Root] ]

\* The scheduler's ready queue links the node in and out (through the same
\* intrusive link); Root waits in no wait queue.
ready_queue_push(t) ==
  /\ Running /\ pc[t] = "idle" /\ calls[t] < MaxNodeCalls
  /\ ~is_enqueued(Root)
  /\ m_next' = [m_next EXCEPT ![Root] = EndTag]
  /\ calls' = [calls EXCEPT ![t] = @ + 1]
  /\ h' = [h EXCEPT !.node_op = "push"]
  /\ UNCHANGED <<m_ref_count, m_head, m_predecessor, m_is_respawning, functor_alive,
                 pc, old_head, res, old_count, ret, ptr_ret, only_one_thread, arg,
                 teamVars, extVars>>

ready_queue_pop(t) ==
  /\ Running /\ pc[t] = "idle" /\ calls[t] < MaxNodeCalls
  /\ is_enqueued(Root)
  /\ m_next' = [m_next EXCEPT ![Root] = NotEnqueued]
  /\ calls' = [calls EXCEPT ![t] = @ + 1]
  /\ h' = [h EXCEPT !.node_op = "pop"]
  /\ UNCHANGED <<m_ref_count, m_head, m_predecessor, m_is_respawning, functor_alive,
                 pc, old_head, res, old_count, ret, ptr_ret, only_one_thread, arg,
                 teamVars, extVars>>

\* void set_priority(TaskPriority priority) noexcept
set_priority_call(t, p) ==
  /\ Running /\ pc[t] = "idle" /\ calls[t] < MaxNodeCalls
  /\ calls' = [calls EXCEPT ![t] = @ + 1]
  /\ h' = [h EXCEPT !.node_op = "set_priority", !.sp_arg = p,
                   !.sp_enqueued = is_enqueued(Root), !.sp_calls = @ + 1]
  /\ IF set_priority_expects(Root)
       THEN /\ m_priority' = [m_priority EXCEPT ![Root] = priority_type(p)]
            /\ UNCHANGED pc
       ELSE /\ pc' = [pc EXCEPT ![t] = "asserted"]
            /\ UNCHANGED m_priority
  /\ UNCHANGED <<nodeVars, old_head, res, old_count, ret, ptr_ret, only_one_thread, arg,
                 teamVars, m_task_type, m_ready_queue_base, aggVars>>

\* TaskPriority get_priority() const noexcept
get_priority_call(t) ==
  /\ Running /\ pc[t] = "idle" /\ calls[t] < MaxNodeCalls
  /\ calls' = [calls EXCEPT ![t] = @ + 1]
  /\ h' = [h EXCEPT !.node_op = "get_priority", !.got_priority = get_priority(Root)]
  /\ UNCHANGED <<nodeVars, pc, old_head, res, old_count, ret, ptr_ret, only_one_thread,
                 arg, teamVars, extVars>>

\* bool is_aggregate() / is_runnable() const noexcept
is_aggregate_call(t) ==
  /\ Running /\ pc[t] = "idle" /\ calls[t] < MaxNodeCalls
  /\ calls' = [calls EXCEPT ![t] = @ + 1]
  /\ ret' = [ret EXCEPT ![t] = Result(is_aggregate(Root))]
  /\ h' = [h EXCEPT !.node_op = "is_aggregate"]
  /\ UNCHANGED <<nodeVars, pc, old_head, res, old_count, ptr_ret, only_one_thread,
                 arg, teamVars, extVars>>

is_runnable_call(t) ==
  /\ Running /\ pc[t] = "idle" /\ calls[t] < MaxNodeCalls
  /\ calls' = [calls EXCEPT ![t] = @ + 1]
  /\ ret' = [ret EXCEPT ![t] = Result(is_runnable(Root))]
  /\ h' = [h EXCEPT !.node_op = "is_runnable"]
  /\ UNCHANGED <<nodeVars, pc, old_head, res, old_count, ptr_ret, only_one_thread,
                 arg, teamVars, extVars>>

\* as_runnable_task(): KOKKOS_EXPECTS(this->is_runnable()); return static_cast<...>(*this);
as_runnable_task_call(t) ==
  /\ Running /\ pc[t] = "idle" /\ calls[t] < MaxNodeCalls
  /\ calls' = [calls EXCEPT ![t] = @ + 1]
  /\ IF is_runnable(Root)
       THEN /\ ptr_ret' = [ptr_ret EXCEPT ![t] = Root]
            /\ h' = [h EXCEPT !.node_op = "as_runnable_task", !.cast_ok = @ \cup {"runnable"}]
            /\ UNCHANGED pc
       ELSE /\ pc' = [pc EXCEPT ![t] = "asserted"]
            /\ h' = [h EXCEPT !.node_op = "as_runnable_task", !.cast_failed = "runnable"]
            /\ UNCHANGED ptr_ret
  /\ UNCHANGED <<nodeVars, old_head, res, old_count, ret, only_one_thread, arg,
                 teamVars, extVars>>

\* as_aggregate(): KOKKOS_EXPECTS(this->is_aggregate()); return static_cast<...>(*this);
as_aggregate_call(t) ==
  /\ Running /\ pc[t] = "idle" /\ calls[t] < MaxNodeCalls
  /\ calls' = [calls EXCEPT ![t] = @ + 1]
  /\ IF is_aggregate(Root)
       THEN /\ ptr_ret' = [ptr_ret EXCEPT ![t] = Root]
            /\ h' = [h EXCEPT !.node_op = "as_aggregate", !.cast_ok = @ \cup {"aggregate"}]
            /\ UNCHANGED pc
       ELSE /\ pc' = [pc EXCEPT ![t] = "asserted"]
            /\ h' = [h EXCEPT !.node_op = "as_aggregate", !.cast_failed = "aggregate"]
            /\ UNCHANGED ptr_ret
  /\ UNCHANGED <<nodeVars, old_head, res, old_count, ret, only_one_thread, arg,
                 teamVars, extVars>>

\* The caller goes on to its next call.
next_call(t) ==
  /\ Running /\ pc[t] \in {"done", "returned"}
  /\ pc' = [pc EXCEPT ![t] = "idle"]
  /\ res' = [res EXCEPT ![t] = "none"]
  /\ UNCHANGED <<nodeVars, old_head, old_count, ret, ptr_ret, only_one_thread, arg, calls,
                 teamVars, extVars, h>>

\* A node of any kind and priority (an aggregate is constructed Regular) with
\* one reference, and one caller that makes up to MaxNodeCalls calls, one
\* after the other, of the operations its kind of node has.
InitNode ==
  /\ \E k \in TaskType, p \in TaskPriority :
       /\ k = Aggregate => p = Regular
       /\ NodeInit(1)
       /\ KindInit(k, p)
       /\ h = [HInit EXCEPT !.init_count = 1, !.init_kind = k, !.init_prio = p]
  /\ NoAggregate
  /\ CallInit
  /\ team_size = 1
  /\ arrived = {}

NextNodeAny ==
  \/ \E p \in TaskPriority : set_priority_call(1, p)
  \/ get_priority_call(1)
  \/ is_aggregate_call(1)
  \/ is_runnable_call(1)
  \/ as_runnable_task_call(1)
  \/ as_aggregate_call(1)
  \/ ready_queue_push(1)
  \/ ready_queue_pop(1)
  \/ increment_call(1)
  \/ decrement_call(1)
  \/ decrement_return(1)
  \/ calls[1] < MaxNodeCalls /\ try_add_waiting_call(1)
  \/ try_add_waiting_push(1)
  \/ try_add_waiting_return(1)
  \/ calls[1] < MaxNodeCalls /\ consume_wait_queue_call(1)
  \/ consume_wait_queue_exchange(1)
  \/ consume_wait_queue_visit(1)
  \/ consume_wait_queue_return(1)
  \/ next_call(1)

NextNodeRunnable ==
  \/ \E p \in {NumThreads} : is_runnable(Root) /\ set_predecessor_call(1, p)
  \/ is_runnable(Root) /\ set_predecessor_increment(1)
  \/ is_runnable(Root) /\ set_predecessor_store(1)
  \/ is_runnable(Root) /\ clear_predecessor_call(1)
  \/ is_runnable(Root) /\ get_predecessor_call(1)
  \/ is_runnable(Root) /\ has_predecessor_call(1)
  \/ is_runnable(Root) /\ calls[1] < MaxNodeCalls /\ apply_call(1)
  \/ is_runnable(Root) /\ apply_functor_call(1)
  \/ is_runnable(Root) /\ payload_respawn(1)
  \/ is_runnable(Root) /\ apply_functor_return(1)
  \/ is_runnable(Root) /\ apply_team_barrier(1)
  \/ is_runnable(Root) /\ team_barrier_return(1)
  \/ is_runnable(Root) /\ apply_check_respawn(1)
  \/ is_runnable(Root) /\ apply_destroy_functor(1)

NextNode == NextNodeAny \/ NextNodeRunnable

SpecNode == InitNode /\ [][NextNode]_vars

\* ============================================================ AggregateTask
\* int32_t dependence_count() const { return this->n_vla_entries(); }
dependence_count_remaining == remaining
dependence_count == n_vla_entries

Slot == 1..dependence_count

\* The aggregate is ready: the queue's remaining-count has reached zero.
aggregate_ready == remaining = 0

AnySlotSet == \E i \in DOMAIN vla : vla[i] # NullPtr

\* The predecessor in slot i has completed on worker t; the queue goes on to
\* clear the slot.
predecessor_complete(t, i) ==
  /\ pc[t] = "idle"
  /\ i \in Slot /\ i \notin h.taken
  /\ arg' = [arg EXCEPT ![t] = i]
  /\ pc' = [pc EXCEPT ![t] = "read_slot"]
  /\ h' = [h EXCEPT !.taken = @ \cup {i},
                   !.max_active = IF Cardinality({u \in Thread : pc'[u] # "idle"}) > @
                                    THEN Cardinality({u \in Thread : pc'[u] # "idle"}) ELSE @]
  /\ UNCHANGED <<nodeVars, old_head, res, old_count, ret, ptr_ret, only_one_thread, calls,
                 teamVars, extVars>>

slot_read(t) ==
  /\ pc[t] = "read_slot"
  /\ ptr_ret' = [ptr_ret EXCEPT ![t] = vla[arg[t]]]
  /\ pc' = [pc EXCEPT ![t] = "release_slot"]
  /\ UNCHANGED <<nodeVars, old_head, res, old_count, ret, only_one_thread, arg, calls,
                 teamVars, extVars, h>>

\* The slot's owned reference is released.
slot_release(t) ==
  /\ pc[t] = "release_slot"
  /\ m_ref_count' = [m_ref_count EXCEPT ![ptr_ret[t]] = @ - 1]
  /\ pc' = [pc EXCEPT ![t] = "clear_slot"]
  /\ UNCHANGED <<m_head, m_next, m_predecessor, m_is_respawning, functor_alive,
                 old_head, res, old_count, ret, ptr_ret, only_one_thread, arg, calls,
                 teamVars, extVars, h>>

slot_clear(t) ==
  /\ pc[t] = "clear_slot"
  /\ vla' = [vla EXCEPT ![arg[t]] = NullPtr]
  /\ pc' = [pc EXCEPT ![t] = "decrement_remaining"]
  /\ h' = [h EXCEPT !.clear_order = Append(@, arg[t])]
  /\ UNCHANGED <<nodeVars, old_head, res, old_count, ret, ptr_ret, only_one_thread, arg,
                 calls, teamVars, kindVars, n_vla_entries, remaining>>

\* The remaining-count is decremented atomically; the old value is kept.
remaining_decrement(t) ==
  /\ pc[t] = "decrement_remaining"
  /\ old_count' = [old_count EXCEPT ![t] = remaining]
  /\ remaining' = remaining - 1
  /\ pc' = [pc EXCEPT ![t] = "check_ready"]
  /\ UNCHANGED <<nodeVars, old_head, res, ret, ptr_ret, only_one_thread, arg, calls,
                 teamVars, kindVars, n_vla_entries, vla, h>>

\* The worker that took the remaining-count to zero reports the aggregate ready.
ready_check(t) ==
  /\ pc[t] = "check_ready"
  /\ pc' = [pc EXCEPT ![t] = "idle"]
  /\ h' = IF old_count[t] = 1
            THEN [h EXCEPT !.ready_reports = @ + 1, !.ready_early = @ \/ AnySlotSet]
            ELSE h
  /\ UNCHANGED <<nodeVars, old_head, res, old_count, ret, ptr_ret, only_one_thread, arg,
                 calls, teamVars, extVars>>

\* AggregateTask(aggregate_predecessor_count, ...): N slots, each owning a
\* reference to its own predecessor; the queue's remaining-count starts at N.
InitAgg ==
  /\ NodeInit(1)
  /\ KindInit(Aggregate, Regular)
  /\ \E N \in 1..NumThreads :
       /\ n_vla_entries = N
       /\ vla = [i \in 1..N |-> i]
       /\ remaining = N
       /\ h = [HInit EXCEPT !.init_count = 1, !.init_kind = Aggregate, !.init_deps = N]
  /\ CallInit
  /\ team_size = 1
  /\ arrived = {}

NextAgg ==
  \E t \in Thread :
    \/ \E i \in Slot : predecessor_complete(t, i)
    \/ slot_read(t)
    \/ slot_release(t)
    \/ slot_clear(t)
    \/ remaining_decrement(t)
    \/ ready_check(t)

SpecAgg == InitAgg /\ [][NextAgg]_vars

\* ---------------------------------------------------------------- claims
\* The consume call that took the chain of the open queue has finished its walk.
ConsumeDone == h.captures \cap h.walked # {}

\* C1: for every interleaving of try_add_waiting calls with consume_wait_queue
\* on one node, no waiter is visited more than once; once the consume that
\* closed the queue has finished, every waiter whose try_add_waiting returned
\* true has been visited exactly once and every waiter refused was never
\* visited; and a try_add_waiting that decides on an already consumed queue
\* does not return true.
C1_VisitedExactlyOnce ==
  \A t \in Thread :
    /\ h.visited[t] <= 1
    /\ (ret[t] = "true" /\ ConsumeDone) => h.visited[t] = 1
    /\ ret[t] = "false" => h.visited[t] = 0
    /\ t \in h.late => ret[t] # "true"

C1_Witness ==
  /\ ConsumeDone
  /\ \E t, u \in Thread :
       /\ ret[t] = "true" /\ h.visited[t] = 1
       /\ u \in h.late /\ ret[u] = "false"

\* What C2 says of a single state.
C2_Inv ==
  /\ Cardinality(h.captures) <= 1
  /\ \A n \in Node : h.visited[n] <= 1
  /\ \A t \in h.on_consumed : pc[t] = "asserted"

\* C2: the wait queue goes from open to consumed once: at most one
\* consume_wait_queue call takes the chain of an open queue, also when two
\* callers both pass the precondition before either exchanges; no waiter is
\* visited twice; a call made on a consumed queue ends in the precondition
\* assertion; and once wait_queue_is_consumed is true it stays true.
C2_ConsumedOnce ==
  /\ []C2_Inv
  /\ [][is_consumed(Root) => is_consumed(Root)']_vars

C2_Witness ==
  \E t, u, v \in Thread :
    /\ t # u /\ {t, u} \subseteq h.walked
    /\ h.captures = {t}
    /\ v \in h.on_consumed /\ pc[v] = "asserted"

\* C3: a try_add_waiting call made on a consumed queue does not assert and
\* returns false; the waiter is in no queue and is never visited, the queue
\* stays consumed and no reference count has changed.
C3_PushOnConsumed ==
  \A t \in h.push_on_consumed :
    /\ pc[t] # "asserted"
    /\ ret[t] # "true"
    /\ pc[t] = "done" => ret[t] = "false"
    /\ m_next[t] = NotEnqueued
    /\ \A n \in Node : m_head[n] # t /\ m_next[n] # t
    /\ h.accepted[t] = 0 /\ h.visited[t] = 0
    /\ is_consumed(Root)
    /\ m_ref_count = [n \in Node |-> IF n = Root THEN h.init_count ELSE 1]

C3_Witness ==
  \E t \in h.push_on_consumed : pc[t] = "done" /\ ret[t] = "false"

\* Every call has returned and no assertion fired.
Quiescent == \A t \in Thread : pc[t] = "idle"

\* C4: a decrement_and_check_reference_count call returns true exactly when
\* its fetch-add took the count from 1 to 0, whatever other increments and
\* decrements interleave; on a node created with count 2 and not incremented,
\* the first decrement returns false and the second returns true.
C4_TrueIffOneToZero ==
  /\ \A t \in Thread :
       (pc[t] = "idle" /\ ret[t] # "none") => ret[t] = Result(h.hit_zero[t])
  /\ h.reports + Cardinality({t \in Thread : pc[t] = "decrement" /\ h.hit_zero[t]})
       = h.to_zero
  /\ (h.init_count = 2 /\ h.incs = 0) =>
       \A e \in h.dec_log : /\ e[1] = 1 => e[2] = "false"
                            /\ e[1] = 2 => e[2] = "true"

C4_Witness ==
  /\ h.init_count = 2 /\ h.incs = 0
  /\ h.dec_log = {<<1, "false">>, <<2, "true">>}
  /\ m_ref_count[Root] = 0

\* C5 as stated: for N increments and M decrements, N >= M, reached-zero is
\* reported at most once, and when all calls have returned exactly one
\* decrement has reported it iff the count is zero.  (Checked on nodes created
\* with a positive count; runs in which the count was written below zero
\* are left out: they are C6's.)
C5_Original ==
  (h.init_count >= 1 /\ h.incs >= h.decs /\ ~h.neg_seen) =>
    /\ h.reports <= 1
    /\ Quiescent => (h.reports = 1 <=> m_ref_count[Root] = 0)

\* C5 amended: the number of reached-zero reports equals the number of times
\* the count went from 1 to 0; as long as no increment is applied after the
\* count has gone to zero, reached-zero is reported at most once, and when
\* all calls have returned exactly one decrement has reported it iff the
\* count is zero and a decrement was made.
C5_ZeroOnceUnlessRevived ==
  /\ Quiescent => h.reports = h.to_zero
  /\ ~h.inc_after_zero =>
       /\ h.reports <= 1
       /\ Quiescent => (h.reports = 1 <=> (m_ref_count[Root] = 0 /\ h.decs > 0))

C5_Witness ==
  /\ Quiescent /\ ~h.inc_after_zero
  /\ h.incs >= 2 /\ h.decs >= 2 /\ h.incs >= h.decs
  /\ h.reports = 1 /\ m_ref_count[Root] = 0

\* C6 as stated: the reference count is never below zero in any reachable
\* state, and a decrement invoked on a count of zero or less does not return.
C6_NeverNegative ==
  /\ m_ref_count[Root] >= 0
  /\ \A t \in Thread : (pc[t] = "idle" /\ ret[t] # "none") => old_count[t] > 0

\* C10: a set_predecessor call on a node whose predecessor is set ends in the
\* precondition assertion with the stored predecessor and every reference
\* count as the call found them, so two set_predecessor calls with no clear
\* in between never both take effect; a set_predecessor call that returns has
\* stored its argument and raised that node's reference count by exactly one.
C10_SecondSetRejected ==
  /\ h.link_sets <= 1
  /\ pc[1] \in {"set_predecessor", "store_predecessor"} => h.snap_pred = NullPtr
  /\ (pc[1] = "asserted" /\ h.rejected > 0) =>
       /\ h.snap_pred # NullPtr
       /\ m_predecessor[Root] = h.snap_pred
       /\ m_ref_count = h.snap_count
  /\ (pc[1] = "idle" /\ h.last_op = "set") =>
       /\ m_predecessor[Root] = arg[1]
       /\ m_ref_count = [h.snap_count EXCEPT ![arg[1]] = @ + 1]

C10_Witness ==
  /\ pc[1] = "asserted" /\ h.rejected = 1 /\ h.sets_done = 1 /\ calls[1] = 2
  /\ m_predecessor[Root] # NullPtr /\ arg[1] # m_predecessor[Root]
  /\ m_ref_count[m_predecessor[Root]] = 2
  /\ m_ref_count[arg[1]] = 1

\* Every member of the team has returned from apply.
AllReturned == \A t \in Team : pc[t] = "returned"

\* A member is past team_barrier.
PastBarrier(t) == pc[t] \in {"check_respawn", "destroy", "returned"}

\* C7: in apply, no member is past team_barrier, and so none reads the
\* respawn flag or destroys the functor, until every member of the team has
\* made its payload call and returned from it.
C7_BarrierBeforeRespawnRead ==
  /\ ~h.early_read
  /\ \A t \in Team :
       PastBarrier(t) =>
         /\ h.in_payload = {}
         /\ \A u \in Team : h.payload_calls[u] = 1 /\ h.barriers[u] = 1
  /\ ~functor_alive => h.in_payload = {}

C7_Witness ==
  /\ team_size >= 2
  /\ pc[1] = "check_respawn" /\ only_one_thread[1]
  /\ h.set_flag # {} /\ 1 \notin h.set_flag
  /\ \E t \in Team : pc[t] = "in_barrier"

\* C8: in an apply pass whose payload does not set the respawn flag, the
\* functor is destroyed exactly once, by the member of rank zero, for every
\* team size; no other member ever destroys it.
C8_DestroyedOnceByRankZero ==
  /\ \A t \in Team : h.destroys[t] <= (IF team_rank(t) = 0 THEN 1 ELSE 0)
  /\ (AllReturned /\ h.set_flag = {}) =>
       /\ h.destroys[1] = 1
       /\ ~functor_alive

C8_Witness ==
  /\ team_size >= 2 /\ AllReturned /\ h.set_flag = {}
  /\ h.destroys[1] = 1 /\ \A t \in Team \ {1} : h.destroys[t] = 0

\* C9: in an apply pass in which the payload of some member sets the respawn
\* flag, no member destroys the functor: it stays constructed.
C9_RespawnNotDestroyed ==
  h.set_flag # {} =>
    /\ functor_alive
    /\ \A t \in Thread : h.destroys[t] = 0 /\ pc[t] # "destroy"

C9_Witness ==
  /\ team_size >= 2 /\ AllReturned
  /\ h.set_flag # {} /\ 1 \notin h.set_flag
  /\ functor_alive /\ \A t \in Thread : h.destroys[t] = 0

\* C11 as stated: over any sequence of set_predecessor, clear_predecessor,
\* get_predecessor and has_predecessor calls on one node, at most one
\* set_predecessor call succeeds.
C11_Original == h.sets_done <= 1

\* C11 amended: the node holds at most one predecessor at a time: a
\* set_predecessor call succeeds only while no predecessor is set, so between
\* two calls that succeed there is a clear_predecessor; after a clear the
\* predecessor can be set again.
C11_OnePredecessorAtATime ==
  /\ h.link_sets <= 1
  /\ h.sets_done <= h.clears + 1
  /\ pc[1] \in {"set_predecessor", "store_predecessor"} => ~has_predecessor(Root)
  /\ has_predecessor(Root) <=> h.link_sets = 1

C11_Witness ==
  /\ pc[1] = "idle" /\ h.sets_done = 2 /\ h.clears = 1
  /\ has_predecessor(Root) /\ h.last_op = "set"

\* The reference count the constructor gave the node.
InitialCount(n) == IF n = Root THEN h.init_count ELSE 1

\* C19: set_predecessor raises the predecessor's reference count before it
\* stores the link, so whenever has_predecessor() holds the predecessor's
\* count includes that reference; clear_predecessor only resets the link and
\* leaves every reference count as it was: each reference taken is still held.
C19_KeepAliveNotReleased ==
  /\ \A n \in Node :
       m_ref_count[n] = InitialCount(n) + h.sets_to[n]
                          + (IF pc[1] = "store_predecessor" /\ arg[1] = n THEN 1 ELSE 0)
  /\ has_predecessor(Root) =>
       /\ h.sets_to[m_predecessor[Root]] >= 1
       /\ m_ref_count[m_predecessor[Root]] > InitialCount(m_predecessor[Root])
  /\ (pc[1] = "idle" /\ h.last_op = "clear") =>
       /\ ~has_predecessor(Root)
       /\ m_ref_count = h.snap_count

C19_Witness ==
  /\ pc[1] = "idle" /\ h.last_op = "clear" /\ h.snap_pred # NullPtr
  /\ ~has_predecessor(Root)
  /\ m_ref_count[h.snap_pred] = 2

\* C12: the task type given at construction is the node's task type in every
\* state, whatever operations follow; as_runnable_task returns only on a
\* TaskTeam or TaskSingle node and asserts only on an Aggregate one,
\* as_aggregate returns only on an Aggregate node and asserts only on a
\* runnable one, and a downcast that does not return leaves its caller on the
\* assertion path.
C12_KindImmutable ==
  /\ get_task_type(Root) = h.init_kind
  /\ "runnable" \in h.cast_ok => h.init_kind \in {TaskTeam, TaskSingle}
  /\ "aggregate" \in h.cast_ok => h.init_kind = Aggregate
  /\ h.cast_failed = "runnable" => h.init_kind = Aggregate /\ pc[1] = "asserted"
  /\ h.cast_failed = "aggregate" => h.init_kind \in {TaskTeam, TaskSingle} /\ pc[1] = "asserted"

\* A team task whose priority was changed and which ran a pass is downcast.
C12_Witness ==
  /\ h.init_kind = TaskTeam /\ get_task_type(Root) = TaskTeam
  /\ h.sp_calls = 1 /\ m_priority[Root] # h.init_prio
  /\ h.destroys[1] = 1
  /\ h.node_op = "as_runnable_task" /\ "runnable" \in h.cast_ok
  /\ pc[1] = "idle" /\ ptr_ret[1] = Root

\* C13: a step changes the priority only if the node is not enqueued; a
\* set_priority call on an enqueued node asserts and changes no field, and a
\* set_priority call on a node that is not enqueued makes get_priority the
\* value passed and changes no other field (kind, reference count, wait
\* queue head, link, owning queue).
C13_PriorityOnlyWhenNotEnqueued ==
  [][ /\ m_priority' # m_priority => ~is_enqueued(Root)
      /\ h'.sp_calls # h.sp_calls =>
           IF is_enqueued(Root)
             THEN pc'[1] = "asserted" /\ NodeFields' = NodeFields
             ELSE /\ pc'[1] = pc[1]
                  /\ get_priority(Root)' = h'.sp_arg
                  /\ NodeFields' = [NodeFields EXCEPT !.priority = h'.sp_arg] ]_vars

\* A first set_priority changed the priority, the node was enqueued, and a
\* second set_priority asserted.
C13_Witness ==
  /\ h.sp_calls = 2 /\ h.node_op = "set_priority" /\ h.sp_enqueued
  /\ pc[1] = "asserted" /\ is_enqueued(Root)
  /\ m_priority[Root] # h.init_prio /\ m_priority[Root] # h.sp_arg

\* C14: get_priority on an aggregate returns Regular in every state.
C14_AggregateRegular == is_aggregate(Root) => get_priority(Root) = Regular

AggQuiescent == h.taken = Slot /\ \A t \in Thread : pc[t] = "idle"

\* C15: an aggregate constructed with N slots keeps dependence_count() = N; it
\* is not ready and has not been reported ready while a slot is still set;
\* it is reported ready at most once, and exactly once, being ready, when the
\* predecessors of all N slots have completed and their workers have
\* finished, in whatever order and interleaving the slots were cleared.
C15_AggregateReadyOnce ==
  /\ dependence_count = h.init_deps
  /\ Len(vla) = h.init_deps
  /\ h.ready_reports <= 1
  /\ ~h.ready_early
  /\ AnySlotSet => ~aggregate_ready /\ h.ready_reports = 0
  /\ AggQuiescent => aggregate_ready /\ ~AnySlotSet /\ h.ready_reports = 1

\* Three workers cleared three slots at the same time, out of slot order.
C15_Witness ==
  /\ AggQuiescent /\ h.init_deps = 3 /\ h.max_active = 3
  /\ h.clear_order = <<3, 1, 2>>
  /\ aggregate_ready /\ h.ready_reports = 1

RECURSIVE SumOver(_, _)
SumOver(f, S) ==
  IF S = {} THEN 0
  ELSE LET x == CHOOSE y \in S : TRUE IN f[x] + SumOver(f, S \ {x})

\* Calls of the functor made in the pass, by all members.
PayloadInvocations == SumOver(h.payload_calls, Thread)

\* C16 as stated: in one apply pass the functor is called at most once, and
\* exactly once by the time every member has returned, whatever the team size.
C16_Original ==
  /\ PayloadInvocations <= 1
  /\ AllReturned => PayloadInvocations = 1

\* C16: in one apply pass every member that runs apply calls the functor
\* exactly once: never twice, and once as soon as it is past apply_functor; a
\* pass run by a team of n members ends with n calls of the functor.
C16_PayloadOncePerMember ==
  /\ \A t \in Team :
       /\ h.payload_calls[t] <= 1
       /\ pc[t] \notin {"idle", "apply_functor"} => h.payload_calls[t] = 1
  /\ \A t \in Thread \ Team : h.payload_calls[t] = 0
  /\ AllReturned => PayloadInvocations = team_size

\* A team of three has finished a pass: three calls of the functor.
C16_Witness ==
  /\ team_size = 3 /\ AllReturned
  /\ PayloadInvocations = 3

\* Destructor calls made on the functor over all passes, by all members.
Finalizations == SumOver(h.destroys, Thread)

\* C17 as stated: over all passes the functor is destroyed at most once, and
\* every pass in which no payload asked for a respawn ends with the functor
\* destroyed, once, by the member of rank zero, even if the respawn flag was
\* still set from an earlier pass.
C17_Original ==
  /\ Finalizations <= 1
  /\ (AllReturned /\ h.set_flag = {}) => ~functor_alive /\ h.destroys[1] = 1

\* C17: over all passes the functor is destroyed at most once, and only by
\* the member of rank zero; a pass ends with the functor destroyed exactly
\* when the respawn flag is clear at its end, so the first such pass destroys
\* it and no pass follows; apply never clears the flag, so a pass entered
\* with the flag still set destroys nothing, whether or not its payload asked
\* for a respawn, and a pass entered with the flag clear whose payload asked
\* for none destroys the functor.
C17_FinalizedOnceWhenFlagClear ==
  /\ Finalizations <= 1
  /\ \A t \in Thread : team_rank(t) # 0 => h.destroys[t] = 0
  /\ AllReturned => (functor_alive <=> get_respawn_flag(Root))
  /\ ~functor_alive => h.destroys[1] = 1 /\ ~get_respawn_flag(Root)
  /\ h.entered_set => functor_alive /\ get_respawn_flag(Root)
  /\ (AllReturned /\ h.set_flag = {} /\ ~h.entered_set) => ~functor_alive

\* A team's first pass asked for a respawn; the second was entered with the
\* flag still set, asked for none and destroyed nothing; the flag was then
\* reset and the third pass destroyed the functor.
C17_Witness ==
  /\ team_size >= 2 /\ h.pass = 3 /\ h.suppressed = 1
  /\ AllReturned /\ h.set_flag = {} /\ ~h.entered_set
  /\ ~functor_alive /\ Finalizations = 1 /\ h.destroys[1] = 1

\* The positions of a member inside apply.
ApplyPcs == {"apply_functor", "payload", "team_barrier", "in_barrier", "check_respawn", "destroy"}

\* C18: every step of apply (its entry, the payload call and return, the
\* barrier, the test of the respawn flag, the destructor call) leaves the
\* reference counts, the wait queue heads and links, the predecessor links,
\* the priority, the task type and the owning queue as they were; the respawn
\* flag changes only in the step in which the payload sets it.
C18_ApplyFrame ==
  [][ (\E t \in Thread :
         \/ pc[t] = "idle" /\ pc'[t] = "apply_functor"
         \/ pc[t] \in ApplyPcs /\ (pc'[t] # pc[t] \/ h'.set_flag # h.set_flag))
      => /\ m_ref_count' = m_ref_count
         /\ m_head' = m_head /\ m_next' = m_next
         /\ m_predecessor' = m_predecessor
         /\ kindVars' = kindVars
         /\ h'.set_flag = h.set_flag => m_is_respawning' = m_is_respawning ]_vars

\* A node with a predecessor has run a pass that destroyed its functor: its
\* reference count, its predecessor link and the predecessor's count are
\* those it entered the pass with.
C18_Witness ==
  /\ pc[1] = "returned" /\ ~functor_alive /\ h.destroys[1] = 1
  /\ has_predecessor(Root) /\ m_ref_count[m_predecessor[Root]] = 2
  /\ m_ref_count[Root] = h.init_count
  /\ ~get_respawn_flag(Root)

\* C20: in a pass every member calls team_barrier at most once, and has
\* called it exactly once when it is past it, whatever its rank and whatever
\* the respawn flag; and once every member of the team has entered apply,
\* every member eventually returns from it.
C20_BarrierOnceThenReturns ==
  /\ [](\A t \in Team :
          /\ h.barriers[t] <= 1
          /\ pc[t] \in {"in_barrier", "check_respawn", "destroy", "returned"} => h.barriers[t] = 1
          /\ pc[t] \in {"idle", "apply_functor", "payload", "team_barrier"} => h.barriers[t] = 0)
  /\ (\A t \in Team : pc[t] # "idle") ~> AllReturned

\* A team of three has returned from a pass that left the respawn flag set,
\* each member having been through the barrier once.
C20_Witness ==
  /\ team_size = 3 /\ AllReturned /\ get_respawn_flag(Root)
  /\ \A t \in Team : h.barriers[t] = 1 /\ t \in arrived
====
